---- MODULE Spec2Model ----
(***************************************************************************)
(* Model of the InkGenius tattoo editor: the zustand store (history,       *)
(* layers, selection, tool), the fabric canvas it drives, the canvas event *)
(* wiring of TattooCanvas, the AI and upload handlers of the Sidebar, the  *)
(* Header save action and the IndexedDB design store.                      *)
(*                                                                         *)
(* The canvas library is fabric 6 (namespace import, promise-returning     *)
(* Image.fromURL): add/remove fire object:added/object:removed             *)
(* synchronously, loadFromJSON(json, reviver) calls its second argument    *)
(* once per revived object and replaces the canvas content afterwards.     *)
(***************************************************************************)
EXTENDS Integers, Sequences, FiniteSets, TLC

\* ---------------------------------------------------------------- bounds
MaxObjs == 2
MaxClock == 2
MaxSteps == 8
MaxPending == 1
MaxReqs == 2
MaxLoads == 2
CapSlack == 1
CapSteps == 5
ImgSteps == 5

\* ------------------------------------------------------ program constants
MAX_HISTORY == 50

Tools == {"select", "draw", "eraser", "text", "image", "ai", "layers"}
Colors == {"black", "red"}
Styles == {"Traditional", "Realism"}
White == "white"

VARIABLES
  apiKey,          \* process.env.API_KEY is a non-empty string
  app,             \* "loading" | "crashed" | "ready": evaluation of the modules
  canvas,          \* store.canvas is non-null
  objs,            \* canvas._objects, bottom first
  history,         \* store.history
  historyIndex,    \* store.historyIndex (0-based, -1 when unset)
  layers,          \* store.layers
  activeObjectIds, \* store.activeObjectIds
  selectedTool,    \* store.selectedTool
  selectedColor,   \* store.selectedColor
  cv,              \* the canvas: isDrawingMode, selection, 'mouse:down' handlers
  selectedStyle,   \* store.selectedStyle
  isLoading,       \* store.isLoading
  isSaving,        \* store.isSaving
  prompt,          \* AIToolsPanel: prompt.trim() is non-empty
  modal,           \* AIToolsPanel: modalContent
  aiReqs,          \* AI actions awaiting the service or the image decode
  uploads,         \* image uploads between file choice and decode
  loads,           \* undo/redo calls awaiting canvas.loadFromJSON
  saves,           \* Header.saveDesign calls awaiting dbService.saveDesign
  db,              \* object store 'designs', keyed by id
  saved,           \* the designs whose save returned, less those deleted since
  now,             \* the clock read by Date.now()
  last,            \* the last completed user-level operation and what it saw
  steps            \* number of steps taken

vars == <<apiKey, app, canvas, objs, history, historyIndex, layers,
          activeObjectIds, selectedTool, selectedColor, cv, selectedStyle,
          isLoading, isSaving, prompt, modal, aiReqs, uploads, loads, saves, db, saved, now,
          last, steps>>

storeVars == <<objs, history, historyIndex, layers, activeObjectIds>>
bootVars == <<apiKey, app, canvas, selectedStyle>>
toolVars == <<selectedTool, selectedColor, cv>>
aiVars == <<isLoading, prompt, modal, aiReqs>>
dbVars == <<isSaving, saves, db, saved>>

\* ------------------------------------------------------------ sequences
Min(a, b) == IF a < b THEN a ELSE b

RemoveAt(s, i) == [j \in 1..(Len(s) - 1) |-> IF j < i THEN s[j] ELSE s[j + 1]]

Reverse(s) == [j \in 1..Len(s) |-> s[Len(s) + 1 - j]]

\* Array.prototype.slice(0, n)
Slice0(s, n) == SubSeq(s, 1, Min(IF n < 0 THEN 0 ELSE n, Len(s)))

\* -------------------------------------------------- canvas serialization
\* fabric.Object.toObject without the 'id' patch
toObject_NoId(o) ==
  [id |-> 0, type |-> o.type, visible |-> o.visible, pos |-> o.pos,
   color |-> o.color]

\* fabric.Object.toObject with the 'id' patch: id, type, geometry, paint and
\* visible are exported; selectable, evented and the selection are not.
toObject(o) ==
  [id |-> o.id, type |-> o.type, visible |-> o.visible, pos |-> o.pos,
   color |-> o.color]

\* JSON.stringify(canvas.toJSON())
toJSON(os) == [i \in 1..Len(os) |-> toObject(os[i])]

\* the object fabric builds from a serialized object: unlisted properties
\* take their defaults
fromObject(j) ==
  [id |-> j.id, type |-> j.type, visible |-> j.visible, pos |-> j.pos,
   color |-> j.color, selectable |-> TRUE, evented |-> TRUE, act |-> FALSE]

enlivenObjects(snap) == [i \in 1..Len(snap) |-> fromObject(snap[i])]

NewObject(type, id, color) ==
  [id |-> id, type |-> type, visible |-> TRUE, pos |-> 0, color |-> color,
   selectable |-> TRUE, evented |-> TRUE, act |-> FALSE]

\* ---------------------------------------------------------- store state
\* The part of the state the synchronous handlers read and write, as one
\* record so that a handler is the composition of the calls it makes.
Cur ==
  [objs |-> objs, history |-> history, historyIndex |-> historyIndex,
   layers |-> layers, activeObjectIds |-> activeObjectIds]

Commit(s) ==
  /\ objs' = s.objs
  /\ history' = s.history
  /\ historyIndex' = s.historyIndex
  /\ layers' = s.layers
  /\ activeObjectIds' = s.activeObjectIds

\* addToHistory without the eviction of the oldest snapshot
addToHistory_NoEvict(s) ==
  LET state == toJSON(s.objs)
      hi == s.historyIndex
  IN IF hi >= 0 /\ hi < Len(s.history) /\ s.history[hi + 1] = state
     THEN s
     ELSE LET pushed == Append(Slice0(s.history, hi + 1), state)
          IN [s EXCEPT !.history = pushed, !.historyIndex = Len(pushed) - 1]

\* addToHistory that appends after the last entry, keeping the redo branch
addToHistory_KeepRedo(s) ==
  LET state == toJSON(s.objs)
      hi == s.historyIndex
  IN IF hi >= 0 /\ hi < Len(s.history) /\ s.history[hi + 1] = state
     THEN s
     ELSE LET pushed == Append(s.history, state)
              newHistory == IF Len(pushed) > MAX_HISTORY
                            THEN Tail(pushed) ELSE pushed
          IN [s EXCEPT !.history = newHistory,
                       !.historyIndex = Len(newHistory) - 1]

\* addToHistory that drops the newest entry when the cap is passed
addToHistory_DropNewest(s) ==
  LET state == toJSON(s.objs)
      hi == s.historyIndex
  IN IF hi >= 0 /\ hi < Len(s.history) /\ s.history[hi + 1] = state
     THEN s
     ELSE LET pushed == Append(Slice0(s.history, hi + 1), state)
              newHistory == IF Len(pushed) > MAX_HISTORY
                            THEN SubSeq(pushed, 1, MAX_HISTORY) ELSE pushed
          IN [s EXCEPT !.history = newHistory,
                       !.historyIndex = Len(newHistory) - 1]

addToHistory(s) ==
  LET state == toJSON(s.objs)
      hi == s.historyIndex
  IN IF hi >= 0 /\ hi < Len(s.history) /\ s.history[hi + 1] = state
     THEN s
     ELSE LET pushed == Append(Slice0(s.history, hi + 1), state)
              newHistory == IF Len(pushed) > MAX_HISTORY
                            THEN Tail(pushed) ELSE pushed
          IN [s EXCEPT !.history = newHistory,
                       !.historyIndex = Len(newHistory) - 1]

LayerOf(o) ==
  [id |-> o.id, type |-> o.type, locked |-> ~o.selectable,
   visible |-> o.visible]

HasId(l) == l.id # 0

updateLayers(s) ==
  [s EXCEPT !.layers =
     SelectSeq([i \in 1..Len(s.objs) |-> LayerOf(s.objs[i])], HasId)]

\* handleModified without the refresh of the layer list
handleModified_NoLayers(s) == addToHistory(s)

handleModified(s) == updateLayers(addToHistory(s))

ActiveIdx(os) == {i \in 1..Len(os) : os[i].act}

\* a selection handler that does not store the ids
handleSelection_Stale(s) == s

handleSelection(s) ==
  [s EXCEPT !.activeObjectIds =
     {s.objs[i].id : i \in ActiveIdx(s.objs)} \ {0}]

\* ------------------------------------------------------ canvas operations
\* 'object:added' listener: give the target an id when it has none, then
\* handleModified
onObjectAdded(s, i, t) ==
  handleModified([s EXCEPT !.objs[i].id = IF @ = 0 THEN t ELSE @])

\* canvas.add(o): push, then fire 'object:added'
canvasAdd(s, o, t) ==
  onObjectAdded([s EXCEPT !.objs = Append(@, o)], Len(s.objs) + 1, t)

\* canvas.remove(objs[i]): splice; when the object is the canvas's active
\* object (active) 'selection:cleared' fires first; then 'object:removed'
\* -> handleModified
canvasRemove(s, i, active) ==
  LET s1 == [s EXCEPT !.objs = RemoveAt(@, i)]
      s2 == IF active THEN handleSelection(s1) ELSE s1
  IN handleModified(s2)

\* objs[i] is the canvas's active object (not a member of a multi-selection)
SoleActive(s, i) == ActiveIdx(s.objs) = {i}

\* the object as it is after canvas.remove took it off the canvas
Detached(s, i) ==
  IF SoleActive(s, i) THEN [s.objs[i] EXCEPT !.act = FALSE] ELSE s.objs[i]

\* canvas.discardActiveObject(): fires 'selection:cleared' when something
\* was active
discardActiveObject(s) ==
  IF ActiveIdx(s.objs) = {} THEN s
  ELSE handleSelection(
         [s EXCEPT !.objs = [i \in 1..Len(@) |-> [@[i] EXCEPT !.act = FALSE]]])

\* canvas.setActiveObject on the objects at the indices I (one object, or an
\* ActiveSelection of several): fires 'selection:created'/'updated' unless
\* the active object does not change
setActive(s, I) ==
  IF ActiveIdx(s.objs) = I /\ Cardinality(I) = 1 THEN s
  ELSE handleSelection(
         [s EXCEPT !.objs = [i \in 1..Len(@) |-> [@[i] EXCEPT !.act = (i \in I)]]])

\* canvas.clear(): discard the selection, then remove every object in turn
RECURSIVE removeAll(_)
removeAll(s) ==
  IF Len(s.objs) = 0 THEN s ELSE removeAll(canvasRemove(s, 1, FALSE))

canvasClear(s) == removeAll(discardActiveObject(s))

\* canvas.add(...os): push them all, then fire 'object:added' for each
RECURSIVE fireAdded(_, _, _, _)
fireAdded(s, i, n, t) ==
  IF i > n THEN s ELSE fireAdded(onObjectAdded(s, i, t), i + 1, n, t)

canvasAddAll(s, os, t) ==
  fireAdded([s EXCEPT !.objs = @ \o os], Len(s.objs) + 1,
            Len(s.objs) + Len(os), t)

\* ----------------------------------------------------------------- steps
Bump == steps < MaxSteps /\ steps' = steps + 1

\* 'last' also follows a succession of undo invocations that started with
\* no reload pending: their number (undos), and the historyIndex (from) and
\* history (hist) at the first of them; and whether the last undo or redo
\* awaits a promise that nothing will resolve (stuck)
NoLast ==
  [k |-> "none", pre |-> <<>>, undos |-> 0, from |-> -1, hist |-> <<>>,
   stuck |-> FALSE]

\* what an edit leaves in 'last': the content, the history and the index it
\* started from, when it changed the content and was recorded
Edited(s) ==
  IF toJSON(s.objs) # toJSON(objs) /\ s.history # history /\ loads = <<>>
  THEN [NoLast EXCEPT !.k = "edit", !.pre = toJSON(objs),
                      !.from = historyIndex, !.hist = history]
  ELSE NoLast

\* ------------------------------------------------------------- tool sync
\* a fabric.Canvas as constructed: not drawing, group selection on, no
\* listener
NewCanvas == [isDrawingMode |-> FALSE, selection |-> TRUE, mouseDown |-> 0]

\* updateTool that does not remove the 'mouse:down' listeners first
updateTool_NoOff(tool, c) ==
  LET c1 == [c EXCEPT !.isDrawingMode = FALSE,
                      !.selection = (tool \in {"select", "text"})]
  IN IF tool \in {"draw", "eraser"} THEN [c1 EXCEPT !.isDrawingMode = TRUE]
     ELSE IF tool = "text" THEN [c1 EXCEPT !.mouseDown = @ + 1]
     ELSE c1

\* updateTool(tool, canvas), run by the effect on [canvas, selectedTool,
\* updateTool]
updateTool(tool, c) ==
  LET c1 == [c EXCEPT !.isDrawingMode = FALSE,
                      !.selection = (tool \in {"select", "text"}),
                      !.mouseDown = 0]
  IN IF tool \in {"draw", "eraser"} THEN [c1 EXCEPT !.isDrawingMode = TRUE]
     ELSE IF tool = "text" THEN [c1 EXCEPT !.mouseDown = @ + 1]
     ELSE c1

\* ---------------------------------------------------------------- actions
\* evaluation of services/api: the module constructs aiService at import,
\* and the constructor throws when the key is empty
LoadModules ==
  /\ app = "loading"
  /\ app' = IF apiKey THEN "ready" ELSE "crashed"
  /\ Bump
  /\ UNCHANGED <<apiKey, canvas, selectedStyle, storeVars, toolVars, aiVars,
                 dbVars, uploads, loads, now, last>>

\* TattooCanvas mount effect
Mount ==
  /\ app = "ready" /\ ~canvas
  /\ canvas' = TRUE
  /\ Commit(updateLayers(addToHistory(Cur)))
  /\ cv' = updateTool(selectedTool, cv)
  /\ last' = NoLast
  /\ Bump
  /\ UNCHANGED <<apiKey, app, selectedStyle, selectedTool, selectedColor,
                 aiVars, dbVars,
                 uploads, loads, now>>

\* the clock advances
Tick ==
  /\ now < MaxClock
  /\ now' = now + 1
  /\ Bump
  /\ UNCHANGED <<bootVars, storeVars, toolVars, aiVars, dbVars, uploads,
                 loads, last>>

\* the sidebar and header take clicks: the app is mounted and no modal
\* covers the window
Clickable == canvas /\ modal = "none"

\* the canvas takes pointer input: the loading overlay is off as well
Pointer == Clickable /\ ~isLoading

DrawingMode == cv.isDrawingMode

\* AIToolsPanel is rendered only while the tool is 'ai': leaving the tool
\* unmounts it, its prompt and modal state are dropped and the setState
\* calls of its pending handlers no longer show anything
Orphan(rs) == [i \in 1..Len(rs) |-> [rs[i] EXCEPT !.live = FALSE]]

setTool(t) ==
  /\ selectedTool' = t
  /\ cv' = updateTool(t, cv)
  /\ IF selectedTool = "ai" /\ t # "ai"
     THEN /\ modal' = "none"
          /\ prompt' = FALSE
          /\ aiReqs' = Orphan(aiReqs)
     ELSE UNCHANGED <<modal, prompt, aiReqs>>

\* a tool button other than Upload
SetTool(t) ==
  /\ Clickable
  /\ t # "image" /\ t # selectedTool
  /\ setTool(t)
  /\ last' = NoLast
  /\ Bump
  /\ UNCHANGED <<bootVars, storeVars, selectedColor, isLoading, dbVars,
                 uploads, loads, now>>

\* PencilBrush on mouse up: canvas.add(path), then 'path:created'
DrawPath ==
  /\ Pointer /\ DrawingMode
  /\ Len(objs) < MaxObjs
  /\ LET color == IF selectedTool = "draw" THEN selectedColor ELSE White
         s1 == canvasAdd(Cur, NewObject("path", 0, color), now)
         s2 == handleModified(s1)
     IN Commit(s2) /\ last' = Edited(s2)
  /\ Bump
  /\ UNCHANGED <<bootVars, toolVars, aiVars, dbVars, uploads, loads, now>>

\* 'mouse:down' listener of the text tool, on an empty spot
AddText ==
  /\ Pointer /\ cv.mouseDown > 0
  /\ Len(objs) < MaxObjs
  /\ LET s1 == canvasAdd(Cur, NewObject("i-text", now, selectedColor), now)
         s2 == setActive(s1, {Len(s1.objs)})
     IN Commit(s2) /\ last' = Edited(s2)
  /\ Bump
  /\ UNCHANGED <<bootVars, toolVars, aiVars, dbVars, uploads, loads, now>>

\* an object can be hit by the pointer
Hittable(o) == o.visible /\ o.evented /\ o.selectable

\* click on an object (shift adds it to the selection when group selection
\* is on), outside drawing mode
ClickObject(i, shift) ==
  /\ Pointer /\ ~DrawingMode
  /\ i \in 1..Len(objs) /\ Hittable(objs[i])
  /\ shift => cv.selection /\ ActiveIdx(objs) # {}
  /\ LET I == IF shift
              THEN (IF i \in ActiveIdx(objs) THEN ActiveIdx(objs) \ {i}
                    ELSE ActiveIdx(objs) \cup {i})
              ELSE {i}
     IN /\ I # ActiveIdx(objs)
        /\ Commit(IF I = {} THEN discardActiveObject(Cur) ELSE setActive(Cur, I))
  /\ last' = NoLast
  /\ Bump
  /\ UNCHANGED <<bootVars, toolVars, aiVars, dbVars, uploads, loads, now>>

\* click on an empty spot outside the text tool: the selection is dropped
ClickEmpty ==
  /\ Pointer /\ ~DrawingMode /\ selectedTool # "text"
  /\ ActiveIdx(objs) # {}
  /\ Commit(discardActiveObject(Cur))
  /\ last' = NoLast
  /\ Bump
  /\ UNCHANGED <<bootVars, toolVars, aiVars, dbVars, uploads, loads, now>>

\* drag of the selection: 'object:modified'
MoveSelection ==
  /\ Pointer /\ ~DrawingMode
  /\ ActiveIdx(objs) # {}
  /\ \A i \in ActiveIdx(objs) : Hittable(objs[i])
  /\ LET s1 == [Cur EXCEPT !.objs =
                  [i \in 1..Len(@) |->
                     IF @[i].act THEN [@[i] EXCEPT !.pos = 1 - @] ELSE @[i]]]
         s2 == handleModified(s1)
     IN Commit(s2) /\ last' = Edited(s2)
  /\ Bump
  /\ UNCHANGED <<bootVars, toolVars, aiVars, dbVars, uploads, loads, now>>

\* ------------------------------------------------------------ layers panel
\* canvas.getObjects().find(o => o.id === id): its index, 0 when absent
FindById(os, id) ==
  IF \E i \in 1..Len(os) : os[i].id = id
  THEN CHOOSE i \in 1..Len(os) :
         os[i].id = id /\ \A j \in 1..(i - 1) : os[j].id # id
  ELSE 0

toggleLayerLock(s, id) ==
  LET i == FindById(s.objs, id)
  IN IF i = 0 THEN s
     ELSE updateLayers(addToHistory(
            [s EXCEPT !.objs[i].selectable = ~@, !.objs[i].evented = ~@]))

\* toggleLayerVisibility without the refresh of the layer list
toggleLayerVisibility_NoRefresh(s, id) ==
  LET i == FindById(s.objs, id)
  IN IF i = 0 THEN s
     ELSE addToHistory([s EXCEPT !.objs[i].visible = ~@])

toggleLayerVisibility(s, id) ==
  LET i == FindById(s.objs, id)
  IN IF i = 0 THEN s
     ELSE updateLayers(addToHistory([s EXCEPT !.objs[i].visible = ~@]))

\* the forEach of reorderLayers: remove and re-add the object of each layer
RECURSIVE reorderEach(_, _, _)
reorderEach(s, order, k) ==
  IF k > Len(order) THEN s
  ELSE LET i == FindById(s.objs, order[k].id)
       IN IF i = 0 THEN reorderEach(s, order, k + 1)
          ELSE reorderEach(
                 canvasAdd(canvasRemove(s, i, SoleActive(s, i)),
                           Detached(s, i), 0),
                 order, k + 1)

reorderLayers(s, newOrder) ==
  updateLayers(addToHistory(reorderEach(s, Reverse(newOrder), 1)))

\* the forEach of deleteSelection over canvas.getActiveObjects()
RECURSIVE removeActive(_, _)
removeActive(s, single) ==
  IF ActiveIdx(s.objs) = {} THEN s
  ELSE LET i == CHOOSE j \in ActiveIdx(s.objs) :
                  \A k \in ActiveIdx(s.objs) : j <= k
       IN removeActive(canvasRemove(s, i, single), single)

deleteSelection(s) ==
  LET n == Cardinality(ActiveIdx(s.objs))
      s1 == removeActive(s, n = 1)
      s2 == IF n > 1 THEN handleSelection(s1) ELSE s1
  IN updateLayers(addToHistory(s2))

\* groupSelection: the active object of a multi-selection is an
\* ActiveSelection, whose type reads 'activeselection' in fabric 6, so the
\* test against 'activeSelection' makes the call return
groupSelection(s) == s

\* ungroupSelection: returns unless the active object is a group, and no
\* canvas object is one
ungroupSelection(s) == s

toggleLayerSelection(s, id) ==
  LET newActiveIds == IF id \in s.activeObjectIds
                      THEN s.activeObjectIds \ {id}
                      ELSE s.activeObjectIds \cup {id}
      selected == {i \in 1..Len(s.objs) : s.objs[i].id \in newActiveIds}
      s1 == discardActiveObject(s)
  IN IF selected = {} THEN s1 ELSE setActive(s1, selected)

\* LayersPanel is rendered while the tool is 'layers'
LayersPanel == Clickable /\ selectedTool = "layers"

LayerIds == {layers[i].id : i \in 1..Len(layers)}

displayedLayers == Reverse(layers)

Perms(n) == {p \in [1..n -> 1..n] : \A a, b \in 1..n : p[a] = p[b] => a = b}

ToggleLayerLock(id) ==
  /\ LayersPanel /\ id \in LayerIds
  /\ Commit(toggleLayerLock(Cur, id))
  /\ last' = NoLast
  /\ Bump
  /\ UNCHANGED <<bootVars, toolVars, aiVars, dbVars, uploads, loads, now>>

ToggleLayerVisibility(id) ==
  /\ LayersPanel /\ id \in LayerIds
  /\ LET s1 == toggleLayerVisibility(Cur, id)
     IN Commit(s1) /\ last' = Edited(s1)
  /\ Bump
  /\ UNCHANGED <<bootVars, toolVars, aiVars, dbVars, uploads, loads, now>>

ReorderLayers(p) ==
  /\ LayersPanel
  /\ p \in Perms(Len(layers))
  /\ \E j \in 1..Len(layers) : p[j] # j
  /\ LET newOrder == [j \in 1..Len(layers) |-> displayedLayers[p[j]]]
         s1 == reorderLayers(Cur, newOrder)
     IN Commit(s1) /\ last' = Edited(s1)
  /\ Bump
  /\ UNCHANGED <<bootVars, toolVars, aiVars, dbVars, uploads, loads, now>>

DeleteSelection ==
  /\ LayersPanel /\ activeObjectIds # {}
  /\ LET s1 == deleteSelection(Cur)
     IN Commit(s1) /\ last' = Edited(s1)
  /\ Bump
  /\ UNCHANGED <<bootVars, toolVars, aiVars, dbVars, uploads, loads, now>>

\* store.groupSelection() / store.ungroupSelection(): the buttons of the
\* panel are disabled by the same type tests
GroupSelection ==
  /\ canvas
  /\ Commit(groupSelection(Cur))
  /\ last' = NoLast
  /\ Bump
  /\ UNCHANGED <<bootVars, toolVars, aiVars, dbVars, uploads, loads, now>>

UngroupSelection ==
  /\ canvas
  /\ Commit(ungroupSelection(Cur))
  /\ last' = NoLast
  /\ Bump
  /\ UNCHANGED <<bootVars, toolVars, aiVars, dbVars, uploads, loads, now>>

ToggleLayerSelection(id) ==
  /\ LayersPanel /\ id \in LayerIds
  /\ Commit(toggleLayerSelection(Cur, id))
  /\ last' = NoLast
  /\ Bump
  /\ UNCHANGED <<bootVars, toolVars, aiVars, dbVars, uploads, loads, now>>

\* ColorPalettePanel button, and the recolouring effect of TattooCanvas that
\* runs when selectedColor changed
SetSelectedColor(c) ==
  /\ Clickable /\ selectedTool \in {"draw", "text", "select"}
  /\ c \in Colors /\ c # selectedColor
  /\ selectedColor' = c
  /\ cv' = updateTool(selectedTool, cv)
  /\ IF ActiveIdx(objs) # {}
     THEN LET s1 == [Cur EXCEPT !.objs =
                       [i \in 1..Len(@) |->
                          IF @[i].act /\ @[i].type \in {"path", "i-text"}
                          THEN [@[i] EXCEPT !.color = c] ELSE @[i]]]
              s2 == updateLayers(addToHistory(s1))
          IN Commit(s2) /\ last' = Edited(s2)
     ELSE UNCHANGED storeVars /\ last' = NoLast
  /\ Bump
  /\ UNCHANGED <<bootVars, selectedTool, aiVars, dbVars, uploads, loads, now>>

\* ------------------------------------------------------------- undo / redo
IsImage(j) == j.type = "image"

\* number of serialized objects whose revival waits for an image to load
NImages(snap) == Len(SelectSeq(snap, IsImage))

\* the rest of undo/redo after the awaited promise resolved
afterLoad(s, newIndex) == [updateLayers(s) EXCEPT !.historyIndex = newIndex]

\* the completion of canvas.loadFromJSON: clear the canvas, add the revived
\* objects
applyLoad(s, snap, t) == canvasAddAll(canvasClear(s), enlivenObjects(snap), t)

\* canvas.loadFromJSON(snap, reviver) up to the first point where it waits
\* for an image.  The reviver, which resolves the awaited promise, is called
\* for each revived object; objects other than images are revived at once.
startLoad(s, newIndex, t) ==
  LET snap == s.history[newIndex + 1]
      n == NImages(snap)
      early == Len(snap) > n
      s1 == IF early THEN afterLoad(s, newIndex) ELSE s
  IN IF n = 0
     THEN [st |-> applyLoad(s1, snap, t), pending |-> <<>>,
           resolved |-> early]
     ELSE [st |-> s1,
           pending |-> <<[snap |-> snap, newIndex |-> newIndex,
                          resolved |-> early, left |-> n]>>,
           resolved |-> early]

\* the awaited promise is not resolved and no image is awaited whose revival
\* would resolve it
Stuck(r) == r.pending = <<>> /\ ~r.resolved

\* what an undo that follows an edit leaves in 'last'
Undone(r, snap) ==
  IF last.k # "edit" THEN NoLast
  ELSE IF r.pending # <<>> THEN [last EXCEPT !.k = "undoing"]
  ELSE IF Len(snap) > 0 THEN [last EXCEPT !.k = "undone"]
  ELSE NoLast

\* the succession of undos in 'l' after one more invocation, whose target
\* snapshot is tgt: an invocation on the blank snapshot, or one that starts
\* while a reload is pending, is not followed
Succession(l, tgt) ==
  IF Len(tgt) = 0 \/ (last.undos = 0 /\ loads # <<>>)
  THEN [l EXCEPT !.undos = 0, !.from = -1, !.hist = <<>>]
  ELSE IF last.undos > 0
  THEN [l EXCEPT !.undos = last.undos + 1, !.from = last.from,
                 !.hist = last.hist]
  ELSE [l EXCEPT !.undos = 1, !.from = historyIndex, !.hist = history]

Undo ==
  /\ canvas /\ historyIndex > 0
  \* JSON.parse(history[newIndex]) throws when the index is past the end
  /\ historyIndex <= Len(history)
  /\ LET r == startLoad(Cur, historyIndex - 1, now)
     IN /\ Len(loads) + Len(r.pending) <= MaxLoads
        /\ Commit(r.st)
        /\ loads' = loads \o r.pending
        /\ last' = [Succession(Undone(r, history[historyIndex]),
                               history[historyIndex])
                      EXCEPT !.stuck = Stuck(r)]
  /\ Bump
  /\ UNCHANGED <<bootVars, toolVars, aiVars, dbVars, uploads, now>>

\* what a redo leaves in 'last' when it directly follows a single undo that
\* has completed: k is "redoing" until the redo has completed, then "redone"
Redone(k) ==
  IF last.undos = 1 /\ loads = <<>>
  THEN [NoLast EXCEPT !.k = k, !.from = last.from, !.hist = last.hist]
  ELSE NoLast

\* redo returns at once when there is no later snapshot
Redo ==
  /\ canvas
  /\ IF historyIndex < Len(history) - 1
     THEN LET r == startLoad(Cur, historyIndex + 1, now)
          IN /\ Len(loads) + Len(r.pending) <= MaxLoads
             /\ Commit(r.st)
             /\ loads' = loads \o r.pending
             /\ last' = [Redone(IF r.pending # <<>> THEN "redoing"
                                ELSE IF Stuck(r) THEN "none" ELSE "redone")
                         EXCEPT !.stuck = Stuck(r)]
     ELSE /\ UNCHANGED <<storeVars, loads>>
          /\ last' = Redone("redone")
  /\ Bump
  /\ UNCHANGED <<bootVars, toolVars, aiVars, dbVars, uploads, now>>

\* an image of a pending loadFromJSON finished loading
ImageLoaded(i) ==
  /\ i \in 1..Len(loads)
  /\ LET l == loads[i]
         s1 == IF l.resolved THEN Cur ELSE afterLoad(Cur, l.newIndex)
     IN IF l.left = 1
        THEN /\ Commit(applyLoad(s1, l.snap, now))
             /\ loads' = RemoveAt(loads, i)
             /\ last' = IF last.k = "undoing"
                        THEN [last EXCEPT !.k = "undone"]
                        ELSE IF last.k = "redoing"
                        THEN [last EXCEPT !.k = "redone"]
                        ELSE [last EXCEPT !.k = "none", !.pre = <<>>]
        ELSE /\ Commit(s1)
             /\ loads' = [loads EXCEPT ![i].resolved = TRUE,
                                       ![i].left = @ - 1]
             /\ last' = IF last.k \in {"undoing", "redoing"} THEN last
                        ELSE [last EXCEPT !.k = "none", !.pre = <<>>]
  /\ Bump
  /\ UNCHANGED <<bootVars, toolVars, aiVars, dbVars, uploads, now>>

ClearHistory ==
  /\ app = "ready"
  /\ history' = <<>>
  /\ historyIndex' = -1
  /\ last' = NoLast
  /\ Bump
  /\ UNCHANGED <<bootVars, objs, layers, activeObjectIds, toolVars, aiVars,
                 dbVars, uploads, loads, now>>

\* ---------------------------------------------------- inserting an image
\* canvas.add(img); canvas.centerObject(img); canvas.setActiveObject(img);
\* canvas.renderAll(); addToHistory()
insertImage(s, t) ==
  LET s1 == canvasAdd(s, NewObject("image", 0, "none"), t)
      n == Len(s1.objs)
      s2 == [s1 EXCEPT !.objs[n].pos = 1]
      s3 == setActive(s2, {n})
  IN addToHistory(s3)

\* ------------------------------------------------------------ AIToolsPanel
AIPanel == Clickable /\ selectedTool = "ai"

\* typing into, or emptying, the prompt field
SetPrompt ==
  /\ AIPanel
  /\ prompt' = ~prompt
  /\ last' = NoLast
  /\ Bump
  /\ UNCHANGED <<bootVars, storeVars, toolVars, isLoading, modal, aiReqs,
                 dbVars, uploads, loads, now>>

NewReq(k) == [k |-> k, st |-> "service", live |-> TRUE]

\* the buttons Generate Design, Stencil and Placement, up to the await
AIClick(k) ==
  /\ AIPanel
  /\ k \in {"generate", "stencil", "placement"}
  /\ k = "generate" => prompt
  /\ IF k = "placement" /\ ~prompt
     THEN /\ modal' = "Input Required"
          /\ UNCHANGED <<isLoading, aiReqs>>
     ELSE /\ Len(aiReqs) < MaxReqs
          /\ isLoading' = TRUE
          /\ aiReqs' = Append(aiReqs, NewReq(k))
          /\ UNCHANGED modal
  /\ last' = NoLast
  /\ Bump
  /\ UNCHANGED <<bootVars, storeVars, toolVars, prompt, dbVars, uploads,
                 loads, now>>

\* a catch block that leaves the request with the service once more
aiFailed_Retry(i) ==
  /\ modal' = IF aiReqs[i].live THEN "Error" ELSE modal
  /\ isLoading' = FALSE
  /\ aiReqs' = [aiReqs EXCEPT ![i].st = "service"]

\* catch (setModalContent 'Error') and finally (setLoading(false))
aiFailed(i) ==
  /\ modal' = IF aiReqs[i].live THEN "Error" ELSE modal
  /\ isLoading' = FALSE
  /\ aiReqs' = RemoveAt(aiReqs, i)

\* the service answers request i: with an image / a recommendation, with
\* no image (the service wrapper throws), or the call itself fails
AIResponse(i, out) ==
  /\ i \in 1..Len(aiReqs) /\ aiReqs[i].st = "service"
  /\ out \in {"ok", "empty", "error"}
  /\ aiReqs[i].k = "placement" => out # "empty"
  /\ IF out # "ok" THEN aiFailed(i)
     ELSE IF aiReqs[i].k = "generate"
     THEN /\ aiReqs' = [aiReqs EXCEPT ![i].st = "image"]
          /\ UNCHANGED <<modal, isLoading>>
     ELSE /\ modal' = IF ~aiReqs[i].live THEN modal
                      ELSE IF aiReqs[i].k = "stencil" THEN "Stencil Ready!"
                      ELSE "Placement Advice"
          /\ isLoading' = FALSE
          /\ aiReqs' = RemoveAt(aiReqs, i)
  /\ last' = NoLast
  /\ Bump
  /\ UNCHANGED <<bootVars, storeVars, toolVars, prompt, dbVars, uploads,
                 loads, now>>

\* fabric.Image.fromURL of the generated image settles
GenerateImage(i, ok) ==
  /\ i \in 1..Len(aiReqs) /\ aiReqs[i].st = "image"
  /\ ok \in BOOLEAN
  /\ IF ok
     THEN /\ Len(objs) < MaxObjs
          /\ LET s1 == insertImage(Cur, now)
             IN Commit(s1) /\ last' = Edited(s1)
          /\ isLoading' = FALSE
          /\ aiReqs' = RemoveAt(aiReqs, i)
          /\ UNCHANGED modal
     ELSE /\ aiFailed(i)
          /\ last' = NoLast
          /\ UNCHANGED storeVars
  /\ Bump
  /\ UNCHANGED <<bootVars, toolVars, prompt, dbVars, uploads, loads, now>>

CloseModal ==
  /\ canvas /\ modal # "none"
  /\ modal' = "none"
  /\ last' = NoLast
  /\ Bump
  /\ UNCHANGED <<bootVars, storeVars, toolVars, isLoading, prompt, aiReqs,
                 dbVars, uploads, loads, now>>

\* ----------------------------------------------------- ToolsPanel: upload
\* the Upload tool button: opens the file dialog, then setTool('image')
ClickImageTool ==
  /\ Clickable
  /\ Len(uploads) < MaxPending
  /\ uploads' = Append(uploads, [st |-> "dialog", ok |-> TRUE])
  /\ setTool("image")
  /\ last' = NoLast
  /\ Bump
  /\ UNCHANGED <<bootVars, storeVars, selectedColor, isLoading, dbVars,
                 loads, now>>

\* the dialog is dismissed: no change event
DialogCancel(i) ==
  /\ i \in 1..Len(uploads) /\ uploads[i].st = "dialog"
  /\ uploads' = RemoveAt(uploads, i)
  /\ last' = NoLast
  /\ Bump
  /\ UNCHANGED <<bootVars, storeVars, toolVars, aiVars, dbVars, loads, now>>

\* handleImageUpload: a change event without a file, or with a file that
\* decodes as an image (ok) or does not
ChooseFile(i, file, ok) ==
  /\ i \in 1..Len(uploads) /\ uploads[i].st = "dialog"
  /\ file \in BOOLEAN /\ ok \in BOOLEAN
  /\ IF file
     THEN /\ uploads' = [uploads EXCEPT ![i] = [st |-> "reading", ok |-> ok]]
          /\ UNCHANGED <<selectedTool, cv, modal, prompt, aiReqs>>
     ELSE /\ ok
          /\ uploads' = RemoveAt(uploads, i)
          /\ setTool("select")
  /\ last' = NoLast
  /\ Bump
  /\ UNCHANGED <<bootVars, storeVars, selectedColor, isLoading, dbVars,
                 loads, now>>

\* FileReader: onload with the data URL, or a read error (no onload)
ReaderDone(i, ok) ==
  /\ i \in 1..Len(uploads) /\ uploads[i].st = "reading"
  /\ ok \in BOOLEAN
  /\ uploads' = IF ok THEN [uploads EXCEPT ![i].st = "decoding"]
                ELSE RemoveAt(uploads, i)
  /\ last' = NoLast
  /\ Bump
  /\ UNCHANGED <<bootVars, storeVars, toolVars, aiVars, dbVars, loads, now>>

\* fabric.Image.fromURL of the uploaded file settles: try / catch / finally
\* of reader.onload
UploadDecoded(i) ==
  /\ i \in 1..Len(uploads) /\ uploads[i].st = "decoding"
  /\ IF uploads[i].ok
     THEN /\ Len(objs) < MaxObjs
          /\ LET s1 == insertImage(Cur, now)
             IN Commit(s1) /\ last' = Edited(s1)
     ELSE /\ UNCHANGED storeVars
          /\ last' = NoLast
  /\ setTool("select")
  /\ uploads' = RemoveAt(uploads, i)
  /\ Bump
  /\ UNCHANGED <<bootVars, selectedColor, isLoading, dbVars, loads, now>>

\* ------------------------------------------------------- design store
\* Identifiers are Date.now().toString() and timestamps toISOString(): all
\* readings of one session print with the same number of digits, so both
\* are compared as the clock readings they print.

\* the 'designs' object store after db.put(rec): keyed by rec.id
dbPut(d, rec) ==
  [id \in DOMAIN d \cup {rec.id} |-> IF id = rec.id THEN rec ELSE d[id]]

\* db.delete that empties the store
dbDelete_Wipe(d, id) == [k \in {} |-> d[k]]

\* ... after db.delete(id)
dbDelete(d, id) == [k \in DOMAIN d \ {id} |-> d[k]]

\* db.get('designs', id): the record found, as a set (empty for undefined)
loadDesign(id) == IF id \in DOMAIN db THEN {db[id]} ELSE {}

\* index order: by timestamp, then by primary key
IndexBefore(a, b) ==
  \/ a.timestamp < b.timestamp
  \/ a.timestamp = b.timestamp /\ a.id < b.id

RECURSIVE sortByIndex(_)
sortByIndex(recs) ==
  IF recs = {} THEN <<>>
  ELSE LET m == CHOOSE r \in recs : \A q \in recs \ {r} : IndexBefore(r, q)
       IN <<m>> \o sortByIndex(recs \ {m})

\* db.getAllFromIndex('designs', 'timestamp')
getAllDesigns == sortByIndex({db[id] : id \in DOMAIN db})

\* canvas.toDataURL: the picture of the visible objects
IsVisible(j) == j.visible

toDataURL(os) == SelectSeq(toJSON(os), IsVisible)

\* the save button without its disabled state
SaveClick_NotDisabled ==
  /\ Clickable
  /\ isSaving' = TRUE
  /\ saves' = Append(saves,
       [st |-> "open", id |-> 0, gone |-> FALSE,
        design |-> [canvas |-> toJSON(objs), thumbnail |-> toDataURL(objs),
                    name |-> "Design", style |-> selectedStyle]])
  /\ last' = NoLast
  /\ Bump
  /\ UNCHANGED <<bootVars, storeVars, toolVars, aiVars, db, saved, uploads,
                 loads, now>>

\* Header.saveDesign up to the await: the button is disabled while saving
SaveClick ==
  /\ Clickable /\ ~isSaving
  /\ isSaving' = TRUE
  /\ saves' = Append(saves,
       [st |-> "open", id |-> 0, gone |-> FALSE,
        design |-> [canvas |-> toJSON(objs), thumbnail |-> toDataURL(objs),
                    name |-> "Design", style |-> selectedStyle]])
  /\ last' = NoLast
  /\ Bump
  /\ UNCHANGED <<bootVars, storeVars, toolVars, aiVars, db, saved, uploads,
                 loads, now>>

\* DatabaseService.saveDesign after the database is open: read the clock
\* for the id, read it again (ts) for the timestamp, db.put
SaveStore(i, ts) ==
  /\ i \in 1..Len(saves) /\ saves[i].st = "open"
  /\ ts \in {now, now + 1} /\ ts <= MaxClock
  /\ LET d == saves[i].design
         rec == [id |-> now, canvas |-> d.canvas, thumbnail |-> d.thumbnail,
                 name |-> d.name, style |-> d.style, timestamp |-> ts]
     IN db' = dbPut(db, rec)
  /\ now' = ts
  /\ saves' = [saves EXCEPT ![i].st = "put", ![i].id = now]
  /\ Bump
  /\ UNCHANGED <<bootVars, storeVars, toolVars, aiVars, isSaving, saved,
                 uploads, loads, last>>

\* saveDesign returns the id; finally of Header.saveDesign
SaveDone(i) ==
  /\ i \in 1..Len(saves) /\ saves[i].st = "put"
  /\ isSaving' = FALSE
  /\ saved' = IF saves[i].gone THEN saved
              ELSE Append(saved, [id |-> saves[i].id, design |-> saves[i].design])
  /\ saves' = RemoveAt(saves, i)
  /\ Bump
  /\ UNCHANGED <<bootVars, storeVars, toolVars, aiVars, db, uploads, loads,
                 now, last>>

\* the database cannot be opened or written: catch and finally of
\* Header.saveDesign
SaveFailed(i) ==
  /\ i \in 1..Len(saves) /\ saves[i].st = "open"
  /\ isSaving' = FALSE
  /\ saves' = RemoveAt(saves, i)
  /\ Bump
  /\ UNCHANGED <<bootVars, storeVars, toolVars, aiVars, db, saved, uploads,
                 loads, now, last>>

\* DatabaseService.deleteDesign(id)
DeleteDesign(id) ==
  /\ app = "ready"
  /\ db' = dbDelete(db, id)
  /\ saved' = SelectSeq(saved, LAMBDA e : e.id # id)
  /\ saves' = [i \in 1..Len(saves) |->
                IF saves[i].st = "put" /\ saves[i].id = id
                THEN [saves[i] EXCEPT !.gone = TRUE] ELSE saves[i]]
  /\ last' = [NoLast EXCEPT
                !.k = IF id \in DOMAIN db THEN "deleted" ELSE "absent",
                !.pre = <<id>>]
  /\ Bump
  /\ UNCHANGED <<bootVars, storeVars, toolVars, aiVars, isSaving, uploads,
                 loads, now>>

\* the style selector of AIToolsPanel
SetStyle(st) ==
  /\ AIPanel
  /\ st \in Styles /\ st # selectedStyle
  /\ selectedStyle' = st
  /\ Bump
  /\ UNCHANGED <<apiKey, app, canvas, storeVars, toolVars, aiVars, dbVars,
                 uploads, loads, now, last>>

\* ------------------------------------------------------------------ editor
NoDesigns == [id \in {} |-> 0]

Init ==
  /\ apiKey \in BOOLEAN
  /\ app = "loading"
  /\ canvas = FALSE
  /\ objs = <<>>
  /\ history = <<>>
  /\ historyIndex = -1
  /\ layers = <<>>
  /\ activeObjectIds = {}
  /\ selectedTool = "ai"
  /\ selectedColor = "black"
  /\ cv = NewCanvas
  /\ selectedStyle = "Traditional"
  /\ isLoading = FALSE
  /\ isSaving = FALSE
  /\ prompt = FALSE
  /\ modal = "none"
  /\ aiReqs = <<>>
  /\ uploads = <<>>
  /\ loads = <<>>
  /\ saves = <<>>
  /\ db = NoDesigns
  /\ saved = <<>>
  /\ now = 1
  /\ last = NoLast
  /\ steps = 0

\* the operations on the canvas and the store
Editing ==
  \/ Tick
  \/ \E t \in Tools : SetTool(t)
  \/ DrawPath
  \/ AddText
  \/ \E i \in 1..MaxObjs, shift \in BOOLEAN : ClickObject(i, shift)
  \/ ClickEmpty
  \/ MoveSelection
  \/ \E id \in 1..MaxClock : ToggleLayerLock(id)
  \/ \E id \in 1..MaxClock : ToggleLayerVisibility(id)
  \/ \E p \in Perms(Len(layers)) : ReorderLayers(p)
  \/ DeleteSelection
  \/ GroupSelection
  \/ UngroupSelection
  \/ \E id \in 1..MaxClock : ToggleLayerSelection(id)
  \/ \E c \in Colors : SetSelectedColor(c)
  \/ Undo
  \/ Redo
  \/ \E i \in 1..MaxLoads : ImageLoaded(i)
  \/ ClearHistory

\* the AI panel and the upload tool
Importing ==
  \/ SetPrompt
  \/ \E k \in {"generate", "stencil", "placement"} : AIClick(k)
  \/ \E i \in 1..MaxReqs, out \in {"ok", "empty", "error"} : AIResponse(i, out)
  \/ \E i \in 1..MaxReqs, ok \in BOOLEAN : GenerateImage(i, ok)
  \/ CloseModal
  \/ ClickImageTool
  \/ \E i \in 1..MaxPending : DialogCancel(i)
  \/ \E i \in 1..MaxPending, file \in BOOLEAN, ok \in BOOLEAN : ChooseFile(i, file, ok)
  \/ \E i \in 1..MaxPending, ok \in BOOLEAN : ReaderDone(i, ok)
  \/ \E i \in 1..MaxPending : UploadDecoded(i)

Next ==
  \/ LoadModules
  \/ Mount
  \/ Editing
  \/ Importing

Spec == Init /\ [][Next]_vars

\* -------------------------------------------------- saving and the store
\* the mounted application before any edit
InitDb ==
  /\ apiKey = TRUE
  /\ app = "ready"
  /\ canvas = TRUE
  /\ objs = <<>>
  /\ history = <<toJSON(<<>>)>>
  /\ historyIndex = 0
  /\ layers = <<>>
  /\ activeObjectIds = {}
  /\ selectedTool = "ai"
  /\ selectedColor = "black"
  /\ cv = updateTool("ai", NewCanvas)
  /\ selectedStyle = "Traditional"
  /\ isLoading = FALSE
  /\ isSaving = FALSE
  /\ prompt = FALSE
  /\ modal = "none"
  /\ aiReqs = <<>>
  /\ uploads = <<>>
  /\ loads = <<>>
  /\ saves = <<>>
  /\ db = NoDesigns
  /\ saved = <<>>
  /\ now = 1
  /\ last = NoLast
  /\ steps = 0

NextDb ==
  \/ Tick
  \/ \E t \in {"draw", "ai"} : SetTool(t)
  \/ DrawPath
  \/ \E st \in Styles : SetStyle(st)
  \/ SaveClick
  \/ \E i \in 1..MaxPending, ts \in 1..MaxClock : SaveStore(i, ts)
  \/ \E i \in 1..MaxPending : SaveDone(i)
  \/ \E i \in 1..MaxPending : SaveFailed(i)
  \/ \E id \in 1..MaxClock : DeleteDesign(id)

SpecDb == InitDb /\ [][NextDb]_vars

\* --------------------------------------------------- a long editing session
\* The session: an image is inserted on the blank canvas (two snapshots, one
\* before and one after centring), then its visibility is toggled over and
\* over in the layers panel.  CapImage(v) is the image, CapSnapshot(k) the
\* k-th snapshot of that session.
CapImage(v) ==
  [id |-> 1, type |-> "image", visible |-> v, pos |-> 1, color |-> "none",
   selectable |-> TRUE, evented |-> TRUE, act |-> TRUE]

CapSnapshot(k) ==
  IF k = 1 THEN <<>>
  ELSE IF k = 2 THEN toJSON(<<[CapImage(TRUE) EXCEPT !.pos = 0]>>)
  ELSE toJSON(<<CapImage(k % 2 = 1)>>)

\* the state of that session when the history holds n snapshots
InitCap ==
  \E n \in (MAX_HISTORY - CapSlack)..MAX_HISTORY :
    /\ apiKey = TRUE
    /\ app = "ready"
    /\ canvas = TRUE
    /\ objs = <<CapImage(n % 2 = 1)>>
    /\ history = [k \in 1..n |-> CapSnapshot(k)]
    /\ historyIndex = n - 1
    /\ layers = <<LayerOf(CapImage(n % 2 = 1))>>
    /\ activeObjectIds = {1}
    /\ selectedTool = "layers"
    /\ selectedColor = "black"
    /\ cv = updateTool("layers", NewCanvas)
    /\ selectedStyle = "Traditional"
    /\ isLoading = FALSE
    /\ isSaving = FALSE
    /\ prompt = FALSE
    /\ modal = "none"
    /\ aiReqs = <<>>
    /\ uploads = <<>>
    /\ loads = <<>>
    /\ saves = <<>>
    /\ db = NoDesigns
    /\ saved = <<>>
    /\ now = 1
    /\ last = NoLast
    /\ steps = MaxSteps - CapSteps

SpecCap == InitCap /\ [][Editing]_vars

\* ------------------------------------------------- a session with two images
\* the store after the mount effect of TattooCanvas
MountedStore ==
  updateLayers(addToHistory(
    [objs |-> <<>>, history |-> <<>>, historyIndex |-> -1, layers |-> <<>>,
     activeObjectIds |-> {}]))

\* ... and after two images were inserted, at the clock readings 1 and t
TwoImages(t) == insertImage(insertImage(MountedStore, 1), t)

\* the session after the two insertions, with the layers panel opened
InitImages ==
  \E t \in 1..MaxClock :
    /\ apiKey = TRUE
    /\ app = "ready"
    /\ canvas = TRUE
    /\ objs = TwoImages(t).objs
    /\ history = TwoImages(t).history
    /\ historyIndex = TwoImages(t).historyIndex
    /\ layers = TwoImages(t).layers
    /\ activeObjectIds = TwoImages(t).activeObjectIds
    /\ selectedTool = "layers"
    /\ selectedColor = "black"
    /\ cv = updateTool("layers", NewCanvas)
    /\ selectedStyle = "Traditional"
    /\ isLoading = FALSE
    /\ isSaving = FALSE
    /\ prompt = FALSE
    /\ modal = "none"
    /\ aiReqs = <<>>
    /\ uploads = <<>>
    /\ loads = <<>>
    /\ saves = <<>>
    /\ db = NoDesigns
    /\ saved = <<>>
    /\ now = t
    /\ last = NoLast
    /\ steps = MaxSteps - ImgSteps

SpecImages == InitImages /\ [][Editing]_vars

\* ------------------------------------------------------------------ claims

\* C1: when an undo that directly follows a single recorded edit has
\* completed, the canvas holds the content the edit started from and
\* historyIndex points at a history entry holding that content.
C1_UndoRestoresPrior ==
  last.k = "undone" =>
    /\ toJSON(objs) = last.pre
    /\ historyIndex \in 0..(Len(history) - 1)
    /\ history[historyIndex + 1] = last.pre

\* C2: the history never holds more than MAX_HISTORY snapshots.
C2_HistoryCapped == Len(history) <= MAX_HISTORY

\* a full history whose oldest snapshot, the blank canvas, was evicted
C2_Evicted == Len(history) = MAX_HISTORY /\ history[1] # <<>>

\* C3: every design whose save has returned an id, and whose id was not
\* deleted since, is returned by loadDesign(id) with the canvas, thumbnail,
\* name and style that were saved.
C3_SaveThenLoad ==
  \A i \in 1..Len(saved) :
    \E r \in loadDesign(saved[i].id) :
      /\ r.canvas = saved[i].design.canvas
      /\ r.thumbnail = saved[i].design.thumbnail
      /\ r.name = saved[i].design.name
      /\ r.style = saved[i].design.style

\* position of the first layer with the id, 0 when there is none
LayerIdx(id) ==
  IF \E i \in 1..Len(layers) : layers[i].id = id
  THEN CHOOSE i \in 1..Len(layers) :
         layers[i].id = id /\ \A j \in 1..(i - 1) : layers[j].id # id
  ELSE 0

\* in the next layer list the entry found for id has the flag negated (vis:
\* visible, otherwise locked) and nothing else differs
Toggled(id, vis) ==
  LET k == LayerIdx(id)
  IN /\ k > 0
     /\ Len(layers') = Len(layers)
     /\ layers'[k] = IF vis THEN [layers[k] EXCEPT !.visible = ~@]
                     ELSE [layers[k] EXCEPT !.locked = ~@]
     /\ \A j \in 1..Len(layers) : j # k => layers'[j] = layers[j]

C5_FreshDesignId ==
  [][\A i \in 1..MaxPending, ts \in 1..MaxClock :
       SaveStore(i, ts) =>
         /\ now \notin DOMAIN db
         /\ Cardinality(DOMAIN db') = Cardinality(DOMAIN db) + 1]_vars

\* C6: no two canvas objects share an id and no two layers share an id.
C6_UniqueLayerIds ==
  /\ \A i, j \in 1..Len(objs) : objs[i].id = objs[j].id => i = j
  /\ \A i, j \in 1..Len(layers) : layers[i].id = layers[j].id => i = j

\* C7: when the service returns no image for generateDesign or
\* convertToStencil, the action ends with the error modal shown, isLoading
\* false, and canvas objects, history and historyIndex as they were.
C7_EmptyOutputSurfaced ==
  [][\A i \in 1..MaxReqs :
       (AIResponse(i, "empty") /\ aiReqs[i].k \in {"generate", "stencil"}) =>
         /\ modal' = "Error"
         /\ isLoading' = FALSE
         /\ UNCHANGED <<objs, history, historyIndex>>]_vars

\* C8: with the API key missing the application still comes up, so that an
\* AI action can report the missing key and the editor stays usable.
C8_MissingKeySurfaced == (~apiKey /\ app # "loading") => app = "ready"

\* C9: when an uploaded file does not decode as an image a modal message is
\* shown, and canvas objects, history and historyIndex are as they were.
C9_BadUploadSurfaced ==
  [][\A i \in 1..MaxPending :
       (UploadDecoded(i) /\ ~uploads[i].ok) =>
         /\ modal' # "none"
         /\ UNCHANGED <<objs, history, historyIndex>>]_vars

\* C10: while no save is in progress, getAllDesigns is the list of the
\* designs saved and not deleted, each once, in the order of their saves.
C10_ListedBySaveTime ==
  saves = <<>> =>
    /\ Len(getAllDesigns) = Len(saved)
    /\ \A i \in 1..Len(saved) :
         /\ i <= Len(getAllDesigns)
         /\ getAllDesigns[i].id = saved[i].id
         /\ getAllDesigns[i].canvas = saved[i].design.canvas
         /\ getAllDesigns[i].style = saved[i].design.style

\* C11: deleteDesign(id) leaves no design under id, in loadDesign and in
\* getAllDesigns, leaves every other stored design as it was, and changes
\* nothing in the store when id is not stored.
C11_DeleteExactlyThat ==
  [][\A id \in 1..MaxClock :
       DeleteDesign(id) =>
         /\ loadDesign(id)' = {}
         /\ \A k \in 1..Len(getAllDesigns') : getAllDesigns'[k].id # id
         /\ DOMAIN db' = DOMAIN db \ {id}
         /\ \A k \in DOMAIN db' : db'[k] = db[k]
         /\ id \notin DOMAIN db => db' = db]_vars

\* a stored design was deleted and another one is still stored
C11_DeletedOne ==
  /\ last.k = "deleted"
  /\ last.pre[1] \notin DOMAIN db
  /\ saves = <<>>
  /\ \E e \in 1..Len(saved) : saved[e].id \in DOMAIN db \ {last.pre[1]}

C13_OneSavePending ==
  /\ Len(saves) <= 1
  /\ isSaving <=> saves # <<>>

\* a save whose record is written and whose promise has not settled yet
C13_Saving == isSaving /\ Len(saves) = 1 /\ saves[1].st = "put"

\* the requests that are with the AI service
AtService == Len(SelectSeq(aiReqs, LAMBDA r : r.st = "service"))

\* C14: a request reaches the AI service only by a click on one of the three
\* AI buttons, one request per click, and a request that failed (no image,
\* or an error) is over: nothing is with the service for it afterwards.
C14_NoRetry ==
  [][/\ AtService' > AtService =>
          /\ \E k \in {"generate", "stencil", "placement"} : AIClick(k)
          /\ AtService' = AtService + 1
     /\ \A i \in 1..MaxReqs, out \in {"empty", "error"} :
          AIResponse(i, out) =>
            /\ AtService' = AtService - 1
            /\ Len(aiReqs') = Len(aiReqs) - 1]_vars

\* a request has failed, its error is shown and nothing is pending
C14_Failed == modal = "Error" /\ aiReqs = <<>> /\ ~isLoading

\* C15: when the undos of a succession have all completed, k of them from
\* historyIndex = i >= k, historyIndex is i - k and the canvas holds what
\* history[i - k] was when the succession began.
C15_OverlappingUndos ==
  (last.undos > 0 /\ loads = <<>> /\ last.from >= last.undos) =>
    /\ historyIndex = last.from - last.undos
    /\ toJSON(objs) = last.hist[last.from - last.undos + 1]

\* C16: an undo or a redo, from its invocation to the end of the canvas
\* reload, leaves the history list as it was.
C16_UndoKeepsHistory ==
  [][(Undo \/ Redo \/ \E i \in 1..MaxLoads : ImageLoaded(i)) =>
       history' = history]_vars

\* C17: historyIndex is between -1 and len(history) - 1, and is -1 exactly
\* when the history is empty.
C17_IndexInRange ==
  /\ historyIndex >= -1
  /\ historyIndex <= Len(history) - 1
  /\ historyIndex = -1 <=> history = <<>>

\* one of the user-level edits: a generated or uploaded image is inserted,
\* a text or a stroke is added, the selection is deleted, the layers are
\* reordered
UserEdit ==
  \/ \E i \in 1..MaxReqs : GenerateImage(i, TRUE)
  \/ \E i \in 1..MaxPending : UploadDecoded(i) /\ uploads[i].ok
  \/ AddText
  \/ DrawPath
  \/ DeleteSelection
  \/ \E p \in Perms(Len(layers)) : ReorderLayers(p)

\* C18: a user-level edit advances historyIndex by at most 1, and every
\* snapshot it adds to the history is the canvas content it ends with.
C18_OneSnapshotPerEdit ==
  [][UserEdit =>
       /\ historyIndex' <= historyIndex + 1
       /\ \A j \in (historyIndex + 2)..Len(history') :
            history'[j] = toJSON(objs')]_vars

\* C19: an undo or redo that was invoked has resolved its promise, or a
\* reload is pending whose first revived object resolves it: none is left
\* awaiting a promise that nothing will resolve.
C19_UndoCompletes == ~last.stuck

\* C20: when a redo that directly follows a single completed undo, invoked
\* at historyIndex = i with nothing in progress, has completed, historyIndex
\* is i again and the canvas holds what history[i] was before the undo.
C20_UndoRedoIdentity ==
  last.k = "redone" =>
    /\ historyIndex = last.from
    /\ toJSON(objs) = last.hist[last.from + 1]

\* C21: isLoading is true exactly while at least one AI request is pending.
C21_LoadingWhilePending == isLoading <=> aiReqs # <<>>

\* C22: toggleLayerLock on an existing layer records a new history snapshot
\* (historyIndex advances to a new last entry), so that a following undo can
\* bring the previous locked flag back.
C22_LockRecorded ==
  [][\A id \in 1..MaxClock :
       ToggleLayerLock(id) =>
         /\ historyIndex' = historyIndex + 1
         /\ Len(history') = historyIndex' + 1
         /\ history' # history]_vars

\* C23: with the canvas mounted, canvas.isDrawingMode is true exactly for the
\* tools 'draw' and 'eraser', canvas.selection exactly for 'select' and
\* 'text', and one text-creating 'mouse:down' listener is registered for
\* 'text' and none otherwise.
C23_ToolSync ==
  canvas =>
    /\ cv.isDrawingMode <=> selectedTool \in {"draw", "eraser"}
    /\ cv.selection <=> selectedTool \in {"select", "text"}
    /\ cv.mouseDown = IF selectedTool = "text" THEN 1 ELSE 0

\* the text tool stayed selected through a colour change
C23_TextAfterColour ==
  canvas /\ selectedTool = "text" /\ selectedColor # "black" /\ cv.mouseDown = 1

\* C24: while the tool is 'image' an upload is in progress (the file dialog
\* is open, or the file is being read or decoded) whose handler will set
\* the tool to 'select': the tool is never left at 'image' with nothing
\* pending that would change it.
C24_ImageToolReturns == selectedTool = "image" => uploads # <<>>

\* the store's selection is the set of ids of the canvas's active objects,
\* all of them ids of layers
Mirrored ==
  /\ activeObjectIds = {objs[i].id : i \in ActiveIdx(objs)}
  /\ activeObjectIds \subseteq LayerIds

\* C25: the store's selection mirrors the canvas in every state, and
\* toggleLayerSelection(id) changes it to the previous set with id added if
\* it was absent and removed if it was present.
C25_SelectionMirrors ==
  /\ []Mirrored
  /\ [][\A id \in 1..MaxClock :
          ToggleLayerSelection(id) =>
            activeObjectIds' = IF id \in activeObjectIds
                               THEN activeObjectIds \ {id}
                               ELSE activeObjectIds \cup {id}]_vars

\* two objects with different ids are selected together
C25_TwoSelected == Cardinality(activeObjectIds) = 2

\* the ids of a sequence of objects, snapshot entries or layers, in order
IdsOf(q) == [a \in 1..Len(q) |-> q[a].id]

\* after the step the canvas objects and the layers have the ids of snap
Restored(snap) == IdsOf(objs') = IdsOf(snap) /\ IdsOf(layers') = IdsOf(snap)

\* C26: every snapshot in the history records an id for each object, and a
\* reload by undo or redo leaves the canvas objects and the layers with the
\* ids recorded in the snapshot it loaded, in the same order.
C26_SnapshotsCarryIds ==
  /\ [](\A j \in 1..Len(history) : \A a \in 1..Len(history[j]) :
          history[j][a].id # 0)
  /\ [][/\ (Undo /\ loads' = loads) => Restored(history[historyIndex])
        /\ (Redo /\ loads' = loads /\ historyIndex < Len(history) - 1) =>
             Restored(history[historyIndex + 2])
        /\ \A i \in 1..MaxLoads :
             (ImageLoaded(i) /\ Len(loads') < Len(loads)) =>
               Restored(loads[i].snap)]_vars

\* an undo brought an object back whose id is not the present clock reading
C26_RestoredOldId ==
  /\ last.undos = 1
  /\ loads = <<>>
  /\ \E a \in 1..Len(objs) : objs[a].id # now

\* the steps that reload the canvas from the history, or empty the history
Reloading ==
  \/ Undo
  \/ Redo
  \/ \E i \in 1..MaxLoads : ImageLoaded(i)
  \/ ClearHistory

\* the handlers that call addToHistory once
OneAppend ==
  \/ DrawPath
  \/ AddText
  \/ MoveSelection
  \/ \E id \in 1..MaxClock : ToggleLayerVisibility(id)
  \/ \E c \in Colors : SetSelectedColor(c)

\* C27: a step that appends to the history while historyIndex = i <
\* Len(history) - 1 keeps the entries 0..i in order (but for the d entries
\* the cap evicted), ends the history with the snapshot of the canvas and
\* leaves historyIndex on the last entry, where redo returns at once; a
\* handler that calls addToHistory once leaves nothing else after entry i.
C27_RedoBranchDiscarded ==
  [][(/\ ~Reloading
      /\ historyIndex >= 0 /\ historyIndex < Len(history) - 1
      /\ history' # history) =>
       /\ \E d \in 0..(historyIndex + 1) :
            /\ d > 0 => Len(history') = MAX_HISTORY
            /\ Len(history') >= historyIndex + 2 - d
            /\ \A j \in 1..(historyIndex + 1 - d) :
                 history'[j] = history[j + d]
            /\ OneAppend => Len(history') = historyIndex + 2 - d
       /\ history'[Len(history')] = toJSON(objs')
       /\ historyIndex' = Len(history') - 1]_vars

\* an edit was recorded on a history that had entries after historyIndex
C27_EditedAfterUndo ==
  /\ last.k = "edit"
  /\ last.from >= 0 /\ last.from < Len(last.hist) - 1
  /\ history = Append(SubSeq(last.hist, 1, last.from + 1), toJSON(objs))
  /\ historyIndex = Len(history) - 1

\* C28: a step that appends to a history of MAX_HISTORY entries with
\* historyIndex on the last of them (it changes the history, or it is a
\* handler that ends with a canvas content other than the last entry) drops the oldest entries, one for each
\* snapshot appended, keeps the others in order, ends the history with the
\* snapshot of the canvas and leaves historyIndex = MAX_HISTORY - 1; a
\* handler that calls addToHistory once drops one entry.
C28_OldestEvicted ==
  [][(/\ ~Reloading
      /\ Len(history) = MAX_HISTORY /\ historyIndex = MAX_HISTORY - 1
      /\ \/ history' # history
         \/ OneAppend /\ toJSON(objs') # history[MAX_HISTORY]) =>
       /\ \E k \in 1..MAX_HISTORY :
            /\ OneAppend => k = 1
            /\ Len(history') = MAX_HISTORY
            /\ \A j \in 1..(MAX_HISTORY - k) : history'[j] = history[j + k]
       /\ history'[MAX_HISTORY] = toJSON(objs')
       /\ historyIndex' = MAX_HISTORY - 1]_vars

\* an edit was recorded on a full history and pushed its oldest entry out
C28_EditedWhenFull ==
  /\ last.k = "edit"
  /\ Len(last.hist) = MAX_HISTORY /\ last.from = MAX_HISTORY - 1
  /\ history = Append(Tail(last.hist), toJSON(objs))
  /\ historyIndex = MAX_HISTORY - 1

\* C29: addToHistory changes nothing when the serialized canvas equals
\* history[historyIndex], a second call in a row changes nothing more than
\* the first, and no two adjacent entries of the history are equal.
C29_NoAdjacentDuplicates ==
  /\ (/\ historyIndex >= 0 /\ historyIndex < Len(history)
      /\ history[historyIndex + 1] = toJSON(objs)) => addToHistory(Cur) = Cur
  /\ addToHistory(addToHistory(Cur)) = addToHistory(Cur)
  /\ \A j \in 1..(Len(history) - 1) : history[j] # history[j + 1]

\* an object without its membership of the selection
Unselected(o) == [o EXCEPT !.act = FALSE]

\* the objects of os2 are those of os1, each once, in some order
SameObjects(os1, os2) ==
  /\ Len(os2) = Len(os1)
  /\ \E q \in Perms(Len(os1)) :
       \A j \in 1..Len(os1) : Unselected(os2[j]) = Unselected(os1[q[j]])

\* C30: reorderLayers(newOrder), newOrder a permutation of the displayed
\* layer list, leaves the canvas with the objects it had, each once and with
\* its id, locked and visible flag, and the displayed layer list equal to
\* newOrder.
C30_ReorderStacks ==
  [][\A p \in Perms(Len(layers)) :
       ReorderLayers(p) =>
         /\ SameObjects(objs, objs')
         /\ displayedLayers' =
              [j \in 1..Len(layers) |-> displayedLayers[p[j]]]]_vars

====
